---- MODULE Spec2Model ----
(***************************************************************************)
(* The generator trampoline of src/main.rs (run_generator, greet,          *)
(* factorial) as a state machine over an explicit call stack, together     *)
(* with the effect layer (perform / perform_from / handle / run) that      *)
(* tests/perform_from.rs exercises, layered on the suspension protocol.    *)
(***************************************************************************)
EXTENDS Integers, Sequences, FiniteSets

VARIABLES
    gens,       \* every generator built so far (Rc<RefCell<G>>), by index
    cells,      \* every cell built so far (Rc<RefCell<Option<T>>>), by index
    writes,     \* per cell, how often `*arg.borrow_mut() = Some(..)` ran on it
    stack,      \* native call stack: run_generator and callback activations
    held,       \* `next` closures a Handoff callback kept for a later call
    completed,  \* values handed to the outermost completion callback
    aborted,    \* values handed to a token obtained from the abort capability
    log,        \* what each Handoff callback / effect handler observed
    answers,    \* the values `next` closures of user callbacks were called with
    execs,      \* number of Handoff callbacks the driver has invoked
    panic,      \* a Rust panic that unwound the run ("none" while running)
    error,      \* an error reported by the effect layer ("none" otherwise)
    handlers,   \* installed effect handlers, innermost first
    main        \* the computation handed to the outermost run_generator

vars == <<gens, cells, writes, stack, held, completed, aborted, log, answers,
          execs, panic, error, handlers, main>>

(***************************************************************************)
(* Bounds of the model.                                                    *)
(***************************************************************************)
MaxN == 21          \* largest argument of factorial that is driven
MaxOps == 2         \* longest script of suspensions that is driven
MaxV == 3           \* largest value the cell given to start holds
MaxWrapped == 3     \* largest factorial argument wrapped by start

(***************************************************************************)
(* Option<T>: None is the empty sequence, Some(v) the one-element one.     *)
(***************************************************************************)
None == <<>>
Some(v) == <<v>>
IsSome(o) == Len(o) = 1
Unwrap(o) == o[1]

(***************************************************************************)
(* usize arithmetic.  A usize is UsizeLimbs limbs of 16 bits, least        *)
(* significant first, so that a 64-bit product can be computed with        *)
(* 32-bit integers.                                                        *)
(***************************************************************************)
UsizeLimbs == 4
LimbBase == 2 ^ 16

RECURSIVE MulLimbs(_, _, _)
\* limbs * n + carry, one limb longer than limbs (the last limb is the carry out)
MulLimbs(limbs, n, carry) ==
    IF limbs = <<>> THEN <<carry>>
    ELSE LET p == Head(limbs) * n + carry
         IN  <<p % LimbBase>> \o MulLimbs(Tail(limbs), n, p \div LimbBase)

RECURSIVE Canon(_)
\* a limb sequence without its most significant zero limbs
Canon(limbs) ==
    IF limbs = <<>> THEN <<>>
    ELSE IF limbs[Len(limbs)] = 0 THEN Canon(SubSeq(limbs, 1, Len(limbs) - 1))
    ELSE limbs

RECURSIVE IntLimbs(_)
IntLimbs(k) == IF k = 0 THEN <<>> ELSE <<k % LimbBase>> \o IntLimbs(k \div LimbBase)

\* the usize holding the small number k
ToUsize(k) ==
    LET l == IntLimbs(k)
    IN  l \o [i \in 1..(UsizeLimbs - Len(l)) |-> 0]

\* a * n in usize: the wrapped product and whether it overflowed
UsizeMul(a, n) ==
    LET wide == MulLimbs(a, n, 0)
    IN  [val |-> SubSeq(wide, 1, UsizeLimbs), overflow |-> wide[UsizeLimbs + 1] # 0]

\* the mathematical product of an unbounded natural number (canonical limbs) by n
BigMul(a, n) == Canon(MulLimbs(a, n, 0))

RECURSIVE FactBig(_)
\* n! as an unbounded natural number
FactBig(n) == IF n = 0 THEN IntLimbs(1) ELSE BigMul(FactBig(n - 1), n)

(***************************************************************************)
(* Strings are sequences of characters.                                    *)
(***************************************************************************)
Digits == <<"0", "1", "2", "3", "4", "5", "6", "7", "8", "9">>

RECURSIVE to_string(_)
\* usize::to_string: the decimal digits, most significant first
to_string(n) ==
    IF n < 10 THEN <<Digits[n + 1]>>
    ELSE to_string(n \div 10) \o <<Digits[(n % 10) + 1]>>

Names == {<<>>, <<"a">>, <<"h", "o">>}

\* format!("Hi, {}", name)
Greeting(name) == <<"H", "i", ",", " ">> \o name

(***************************************************************************)
(* The suspension protocol.  A resume of a generator gives one of          *)
(* Yielded(Val(v)), Yielded(Gen(gen_func)), Yielded(Exec(f)), Complete(r), *)
(* or panics; usize overflow is kept apart because what it does depends on *)
(* the build (a panic with overflow checks, a wrapped value without).      *)
(***************************************************************************)
NoDesc == [kind |-> "none", n |-> 0, name |-> <<>>, prog |-> <<>>]
NoCb == [kind |-> "none", eff |-> "", x |-> 0]

\* what a gen_func builds: the generator's kind and its captured parameters
GreetDesc(name) == [kind |-> "greet", n |-> 0, name |-> name, prog |-> <<>>]
FactorialDesc(n) == [kind |-> "factorial", n |-> n, name |-> <<>>, prog |-> <<>>]
ScriptDesc(prog) == [kind |-> "script", n |-> 0, name |-> <<>>, prog |-> prog]
OuterDesc == [kind |-> "outer", n |-> 0, name |-> <<>>, prog |-> <<>>]
InnerDesc == [kind |-> "inner", n |-> 0, name |-> <<>>, prog |-> <<>>]
\* start(arg, |abort| factorial(own, n)): gen_func builds factorial(n)
StartDesc(n) == [kind |-> "start", n |-> n, name |-> <<>>, prog |-> <<>>]

\* a generator that has not run yet, holding the cell it was built with
NewGen(d, cell) ==
    [kind |-> d.kind, pc |-> 0, n |-> d.n, name |-> d.name, prog |-> d.prog,
     cell |-> cell, acc |-> 0, str |-> <<>>, resumes |-> 0, done |-> FALSE]

Resumed(g) == [g EXCEPT !.resumes = @ + 1]
Advanced(g) == [Resumed(g) EXCEPT !.pc = @ + 1]
Finished(g) == [Resumed(g) EXCEPT !.done = TRUE]

YieldVal(g, v) == [tag |-> "Val", v |-> v, mk |-> NoDesc, cb |-> NoCb, g |-> g]
YieldGen(g, d) == [tag |-> "Gen", v |-> 0, mk |-> d, cb |-> NoCb, g |-> g]
YieldExec(g, cb) == [tag |-> "Exec", v |-> 0, mk |-> NoDesc, cb |-> cb, g |-> g]
Complete(g, r) == [tag |-> "Complete", v |-> r, mk |-> NoDesc, cb |-> NoCb, g |-> g]
Overflow(g, r) == [tag |-> "Overflow", v |-> r, mk |-> NoDesc, cb |-> NoCb, g |-> g]
Panicked(g, why) == [tag |-> "Panic", v |-> why, mk |-> NoDesc, cb |-> NoCb, g |-> g]

\* greet: yield Val(format!("Hi, {}", name)); then return what the cell holds
ResumeGreet(g, cs) ==
    IF g.pc = 0 THEN YieldVal(Advanced(g), Greeting(g.name))
    ELSE IF ~IsSome(cs[g.cell]) THEN Panicked(Resumed(g), "unwrap_none")
    ELSE Complete(Finished(g), Unwrap(cs[g.cell]))

\* factorial: 1 for n = 0; else yield Gen(factorial(n - 1)), then cell * n
ResumeFactorial(g, cs) ==
    IF g.pc = 0
    THEN IF g.n = 0 THEN Complete(Finished(g), ToUsize(1))
         ELSE YieldGen(Advanced(g), FactorialDesc(g.n - 1))
    ELSE IF ~IsSome(cs[g.cell]) THEN Panicked(Resumed(g), "unwrap_none")
    ELSE LET p == UsizeMul(Unwrap(cs[g.cell]), g.n)
         IN  IF p.overflow THEN Overflow(Finished(g), p.val)
             ELSE Complete(Finished(g), p.val)

(***************************************************************************)
(* Scripts: the generators the driver is given as input.  A script is a    *)
(* sequence of suspensions; after each one the generator reads its cell    *)
(* and folds the value into an accumulator, which it returns at the end.   *)
(***************************************************************************)
OpVal(v) == [op |-> "val", v |-> v, eff |-> "", body |-> <<>>]
OpExec(e) == [op |-> "exec", v |-> 0, eff |-> e, body |-> <<>>]
OpGen(b) == [op |-> "gen", v |-> 0, eff |-> "", body |-> b]

Sub1 == <<OpExec("B")>>
Sub2 == <<OpVal(2), OpGen(<<OpExec("A")>>)>>
Ops == {OpVal(1), OpExec("A"), OpExec("B"), OpGen(Sub1), OpGen(Sub2)}
Scripts == UNION {[1..k -> Ops] : k \in 0..MaxOps}

Combine(acc, x) == 2 * acc + x

\* the suspension a script op stands for
YieldOp(g, o) ==
    CASE o.op = "val" -> YieldVal(g, o.v)
      [] o.op = "gen" -> YieldGen(g, ScriptDesc(o.body))
      [] o.op = "exec" -> YieldExec(g, [kind |-> "user", eff |-> o.eff, x |-> 0])

ResumeScript(g, cs) ==
    IF g.pc = 0
    THEN IF Len(g.prog) = 0 THEN Complete(Finished(g), g.acc)
         ELSE YieldOp(Advanced(g), g.prog[1])
    ELSE IF ~IsSome(cs[g.cell]) THEN Panicked(Resumed(g), "unwrap_none")
    ELSE LET acc == Combine(g.acc, Unwrap(cs[g.cell]))
         IN  IF g.pc = Len(g.prog)
             THEN Complete([Finished(g) EXCEPT !.acc = acc], acc)
             ELSE YieldOp([Advanced(g) EXCEPT !.acc = acc], g.prog[g.pc + 1])

(***************************************************************************)
(* The effectful functions of tests/perform_from.rs.  perform!(e) is a     *)
(* Handoff suspension bundling the effect; perform_from!(inner()) is a     *)
(* Delegate suspension building inner's computation.                       *)
(***************************************************************************)
Perform(eff, x) == [kind |-> "perform", eff |-> eff, x |-> x]

\* the one value type T of the drive: a String or a usize
StrV(s) == [tag |-> "str", s |-> s, n |-> 0]
IntV(n) == [tag |-> "int", s |-> <<>>, n |-> n]

\* inner: perform!(Bar(10)).to_string()
ResumeInner(g, cs) ==
    IF g.pc = 0 THEN YieldExec(Advanced(g), Perform("Bar", 10))
    ELSE IF ~IsSome(cs[g.cell]) THEN Panicked(Resumed(g), "unwrap_none")
    ELSE Complete(Finished(g), StrV(to_string(Unwrap(cs[g.cell]).n)))

\* outer: x = perform_from!(inner()); foo = perform!(Foo); x.len() + foo
ResumeOuter(g, cs) ==
    CASE g.pc = 0 -> YieldGen(Advanced(g), InnerDesc)
      [] g.pc # 0 /\ ~IsSome(cs[g.cell]) -> Panicked(Resumed(g), "unwrap_none")
      [] g.pc = 1 /\ IsSome(cs[g.cell]) ->
            YieldExec([Advanced(g) EXCEPT !.str = Unwrap(cs[g.cell]).s], Perform("Foo", 0))
      [] g.pc > 1 /\ IsSome(cs[g.cell]) ->
            Complete(Finished(g), IntV(Len(g.str) + Unwrap(cs[g.cell]).n))

\* start: yield Exec(callback); then return what start's own arg holds.  That
\* arg is an Rc<RefCell<T>>, never the Rc<RefCell<Option<T>>> the driver
\* writes to; it is g.cell, and it always holds a value.
ResumeStart(g, cs) ==
    IF g.pc = 0 THEN YieldExec(Advanced(g), [kind |-> "start", eff |-> "", x |-> 0])
    ELSE Complete(Finished(g), Unwrap(cs[g.cell]))

\* Generator::resume
Resume(g, cs) ==
    IF g.done THEN Panicked(Resumed(g), "resumed_after_completion")
    ELSE CASE g.kind = "greet" -> ResumeGreet(g, cs)
           [] g.kind = "factorial" -> ResumeFactorial(g, cs)
           [] g.kind = "script" -> ResumeScript(g, cs)
           [] g.kind = "inner" -> ResumeInner(g, cs)
           [] g.kind = "outer" -> ResumeOuter(g, cs)
           [] g.kind = "start" -> ResumeStart(g, cs)

(***************************************************************************)
(* The call stack.  A frame is an activation of run_generator ("run") or   *)
(* of a Handoff callback ("cb").  st is "resume" / "enter" while the       *)
(* activation has not acted yet and "wait" once it has made its (tail)     *)
(* call, so that nothing but its return is left.  A `next` closure is the  *)
(* chain of suspended computations it resumes, innermost first; the empty  *)
(* chain is the outermost completion callback.                             *)
(***************************************************************************)
Abort0 == "abort0"

Cont(gen, arg, abort) == [gen |-> gen, arg |-> arg, abort |-> abort]

RunFrame(gen, arg, abort, next) ==
    [f |-> "run", gen |-> gen, arg |-> arg, abort |-> abort, next |-> next,
     st |-> "resume", cb |-> NoCb, level |-> 0]

CbFrame(cb, gen, arg, abort, next) ==
    [f |-> "cb", gen |-> gen, arg |-> arg, abort |-> abort, next |-> next,
     st |-> "enter", cb |-> cb, level |-> 1]

\* faulty variant: the next closure captures a new capability, not `abort`
TokenFreshAbort(fr) == [gen |-> fr.gen, arg |-> fr.arg, abort |-> "abort1", next |-> fr.next]

Token(fr) == [gen |-> fr.gen, arg |-> fr.arg, abort |-> fr.abort, next |-> fr.next]

Top == stack[Len(stack)]
Waiting(s) == [s EXCEPT ![Len(s)].st = "wait"]
Running == panic = "none" /\ error = "none"
AtResume == Running /\ stack # <<>> /\ Top.f = "run" /\ Top.st = "resume"
AtCallback(kind) ==
    Running /\ stack # <<>> /\ Top.f = "cb" /\ Top.st = "enter" /\ Top.cb.kind = kind

\* *arg.borrow_mut() = Some(v)
CellWrite(cs, c, v) == [cs EXCEPT ![c] = Some(v)]

\* the same statement, counted on the cell it ran on
Written(ws, c) == [ws EXCEPT ![c] = @ + 1]

\* faulty variant: the closure also hands itself on as the generator's completion
ReenterTwice(t, v, stk) ==
    /\ cells' = CellWrite(cells, t.arg, v)
    /\ writes' = Written(writes, t.arg)
    /\ stack' = Append(stk, RunFrame(t.gen, t.arg, t.abort,
                                     <<Cont(t.gen, t.arg, t.abort)>> \o t.next))

\* faulty variant: the closure drives the generator without writing the cell
ReenterNoWrite(t, v, stk) ==
    /\ cells' = cells
    /\ writes' = writes
    /\ stack' = Append(stk, RunFrame(t.gen, t.arg, t.abort, t.next))

\* the closure `move |result| { *arg.borrow_mut() = Some(result);
\* run_generator(gen, arg, abort, next) }` called with v from the stack stk
Reenter(t, v, stk) ==
    /\ cells' = CellWrite(cells, t.arg, v)
    /\ writes' = Written(writes, t.arg)
    /\ stack' = Append(stk, RunFrame(t.gen, t.arg, t.abort, t.next))

\* next(r): the outermost completion callback, or the closure of a Delegate arm
CallNext(chain, r, stk) ==
    IF chain = <<>>
    THEN /\ completed' = Append(completed, r)
         /\ cells' = cells
         /\ writes' = writes
         /\ stack' = stk
    ELSE /\ completed' = completed
         /\ Reenter([gen |-> chain[1].gen, arg |-> chain[1].arg,
                     abort |-> chain[1].abort, next |-> Tail(chain)], r, stk)

\* faulty variant: the closure captures the inner cell instead of the outer one
DelegateNextInnerCell(fr) == <<Cont(fr.gen, Len(cells) + 1, fr.abort)>> \o fr.next

\* faulty variant: the inner drive completes straight into the outer completion
DelegateNextSkipsOuter(fr) == fr.next

\* the `next` handed to the inner drive of a Delegate arm
DelegateNext(fr) == <<Cont(fr.gen, fr.arg, fr.abort)>> \o fr.next

(***************************************************************************)
(* Borrows.  A RefMut lives in the activation that took it, so what is     *)
(* borrowed is a function of the stack.  Both `gen.borrow_mut()` and       *)
(* `arg.borrow_mut()` are temporaries of one statement: no activation      *)
(* still holds one once it has made its call.                              *)
(***************************************************************************)
\* faulty variant: `let mut g = gen.borrow_mut();` kept across the match
LiveBorrowsAcrossMatch(fr) ==
    IF fr.f = "run" /\ fr.st = "wait" THEN {<<"gen", fr.gen>>} ELSE {}

\* the RefCell borrows an activation holds while it is not executing a
\* statement of its own
LiveBorrows(fr) == {}

Borrowed == UNION {LiveBorrows(stack[i]) : i \in 1..Len(stack)}

\* let result = unsafe { gen.borrow_mut().resume() };
TryResume ==
    IF <<"gen", Top.gen>> \in Borrowed
    THEN Panicked(gens[Top.gen], "already_borrowed")
    ELSE Resume(gens[Top.gen], cells)

(***************************************************************************)
(* run_generator, one action per arm of its match.                         *)
(***************************************************************************)
\* faulty variant: the Val arm drives the generator again without storing v
ArmValNoStore ==
    /\ AtResume
    /\ LET r == TryResume
       IN  /\ r.tag = "Val"
           /\ gens' = [gens EXCEPT ![Top.gen] = r.g]
           /\ stack' = Append(Waiting(stack),
                              RunFrame(Top.gen, Top.arg, Top.abort, Top.next))
    /\ UNCHANGED <<cells, writes, held, completed, aborted, log, answers, execs, panic,
                   error, handlers, main>>

\* Yielded(Yield::Val(v)): store v in the cell and drive the same generator
ArmVal ==
    /\ AtResume
    /\ LET r == TryResume
       IN  /\ r.tag = "Val"
           /\ gens' = [gens EXCEPT ![Top.gen] = r.g]
           /\ cells' = CellWrite(cells, Top.arg, r.v)
           /\ writes' = Written(writes, Top.arg)
           /\ stack' = Append(Waiting(stack),
                              RunFrame(Top.gen, Top.arg, Top.abort, Top.next))
    /\ UNCHANGED <<held, completed, aborted, log, answers, execs, panic, error,
                   handlers, main>>

\* faulty variant: the inner generator is built and driven with the outer cell
ArmGenSharesCell ==
    /\ AtResume
    /\ LET r == TryResume
           inner_gen == Len(gens) + 1
       IN  /\ r.tag = "Gen"
           /\ cells' = cells
           /\ writes' = writes
           /\ gens' = Append([gens EXCEPT ![Top.gen] = r.g], NewGen(r.mk, Top.arg))
           /\ stack' = Append(Waiting(stack),
                              RunFrame(inner_gen, Top.arg, Top.abort, DelegateNext(Top)))
    /\ UNCHANGED <<held, completed, aborted, log, answers, execs, panic, error,
                   handlers, main>>

\* faulty variant: the inner cell starts as a copy of the outer cell
ArmGenCopiesCell ==
    /\ AtResume
    /\ LET r == TryResume
           inner_arg == Len(cells) + 1
           inner_gen == Len(gens) + 1
       IN  /\ r.tag = "Gen"
           /\ cells' = Append(cells, cells[Top.arg])
           /\ writes' = Append(writes, 0)
           /\ gens' = Append([gens EXCEPT ![Top.gen] = r.g], NewGen(r.mk, inner_arg))
           /\ stack' = Append(Waiting(stack),
                              RunFrame(inner_gen, inner_arg, Top.abort, DelegateNext(Top)))
    /\ UNCHANGED <<held, completed, aborted, log, answers, execs, panic, error,
                   handlers, main>>

\* Yielded(Yield::Gen(gen_func)): a fresh cell, a fresh generator, drive it
ArmGen ==
    /\ AtResume
    /\ LET r == TryResume
           inner_arg == Len(cells) + 1
           inner_gen == Len(gens) + 1
       IN  /\ r.tag = "Gen"
           /\ cells' = Append(cells, None)
           /\ writes' = Append(writes, 0)
           /\ gens' = Append([gens EXCEPT ![Top.gen] = r.g], NewGen(r.mk, inner_arg))
           /\ stack' = Append(Waiting(stack),
                              RunFrame(inner_gen, inner_arg, Top.abort, DelegateNext(Top)))
    /\ UNCHANGED <<held, completed, aborted, log, answers, execs, panic, error,
                   handlers, main>>

\* faulty variant: the next closure handed to f forgets the completion callback
ArmExecLosesNext ==
    /\ AtResume
    /\ LET r == TryResume
       IN  /\ r.tag = "Exec"
           /\ gens' = [gens EXCEPT ![Top.gen] = r.g]
           /\ stack' = Append(Waiting(stack),
                              CbFrame(r.cb, Top.gen, Top.arg, Top.abort, <<>>))
    /\ execs' = execs + 1
    /\ UNCHANGED <<cells, writes, held, completed, aborted, log, answers, panic, error,
                   handlers, main>>

\* Yielded(Yield::Exec(f)): call f with the abort capability and a next closure
ArmExec ==
    /\ AtResume
    /\ LET r == TryResume
       IN  /\ r.tag = "Exec"
           /\ gens' = [gens EXCEPT ![Top.gen] = r.g]
           /\ stack' = Append(Waiting(stack),
                              CbFrame(r.cb, Top.gen, Top.arg, Top.abort, Top.next))
    /\ execs' = execs + 1
    /\ UNCHANGED <<cells, writes, held, completed, aborted, log, answers, panic, error,
                   handlers, main>>

\* faulty variant: the Complete arm returns without calling next
ArmCompleteDrops ==
    /\ AtResume
    /\ LET r == TryResume
       IN  /\ r.tag \in {"Complete", "Overflow"}
           /\ gens' = [gens EXCEPT ![Top.gen] = r.g]
    /\ stack' = Waiting(stack)
    /\ UNCHANGED <<cells, writes, completed, held, aborted, log, answers, execs, panic,
                   error, handlers, main>>

\* faulty variant: the Complete arm stores r in the cell, as the Val arm does
ArmCompleteStores ==
    /\ AtResume
    /\ LET r == TryResume
       IN  /\ r.tag \in {"Complete", "Overflow"}
           /\ gens' = [gens EXCEPT ![Top.gen] = r.g]
           /\ IF Top.next = <<>>
              THEN /\ completed' = Append(completed, r.v)
                   /\ cells' = CellWrite(cells, Top.arg, r.v)
                   /\ writes' = Written(writes, Top.arg)
                   /\ stack' = Waiting(stack)
              ELSE CallNext(Top.next, r.v, Waiting(stack))
    /\ UNCHANGED <<held, aborted, log, answers, execs, panic, error, handlers, main>>

\* Complete(r): next(r).  An overflowed product completes with the wrapped
\* value in a build without overflow checks.
ArmComplete ==
    /\ AtResume
    /\ LET r == TryResume
       IN  /\ r.tag \in {"Complete", "Overflow"}
           /\ gens' = [gens EXCEPT ![Top.gen] = r.g]
           /\ CallNext(Top.next, r.v, Waiting(stack))
    /\ UNCHANGED <<held, aborted, log, answers, execs, panic, error, handlers, main>>

\* the resume panics: unwrap of None, a resume after completion, or an
\* overflowed product in a build with overflow checks; the stack unwinds
Panic ==
    /\ AtResume
    /\ LET r == TryResume
       IN  /\ r.tag \in {"Panic", "Overflow"}
           /\ gens' = [gens EXCEPT ![Top.gen] = IF r.tag = "Panic" THEN r.g ELSE Resumed(@)]
           /\ panic' = IF r.tag = "Overflow" THEN "overflow" ELSE r.v
    /\ stack' = <<>>
    /\ UNCHANGED <<cells, writes, held, completed, aborted, log, answers, execs, error,
                   handlers, main>>

\* faulty variant: after a callback returns, the driver goes on to resume the generator
ReturnRedrives ==
    /\ Running
    /\ stack # <<>>
    /\ Top.st = "wait"
    /\ stack' = IF Top.f = "cb"
                THEN Append(SubSeq(stack, 1, Len(stack) - 1),
                            RunFrame(Top.gen, Top.arg, Top.abort, Top.next))
                ELSE SubSeq(stack, 1, Len(stack) - 1)
    /\ UNCHANGED <<gens, cells, writes, held, completed, aborted, log, answers, execs,
                   panic, error, handlers, main>>

\* an activation that has made its call returns
Return ==
    /\ Running
    /\ stack # <<>>
    /\ Top.st = "wait"
    /\ stack' = SubSeq(stack, 1, Len(stack) - 1)
    /\ UNCHANGED <<gens, cells, writes, held, completed, aborted, log, answers, execs,
                   panic, error, handlers, main>>

(***************************************************************************)
(* Handoff callbacks given as input: what a callback taking (abort, next)  *)
(* can do with them.  `next` is a Box<FnBox>, consumed by its call.        *)
(***************************************************************************)
Answers == {1, 2}

Observed(fr, h, how) == [h |-> h, eff |-> fr.cb.eff, x |-> fr.cb.x, gen |-> fr.gen, how |-> how]

\* the callback calls next(v) before it returns
CbNext ==
    /\ AtCallback("user")
    /\ \E v \in Answers :
          /\ answers' = Append(answers, v)
          /\ Reenter(Token(Top), v, Waiting(stack))
    /\ log' = Append(log, Observed(Top, 0, "next"))
    /\ UNCHANGED <<gens, held, completed, aborted, execs, panic, error, handlers, main>>

\* the callback stores next for whoever resumes later, and returns
CbHold ==
    /\ AtCallback("user")
    /\ held' = Append(held, Token(Top))
    /\ log' = Append(log, Observed(Top, 0, "hold"))
    /\ stack' = Waiting(stack)
    /\ UNCHANGED <<gens, cells, writes, completed, aborted, answers, execs, panic, error,
                   handlers, main>>

\* the callback calls abort()(v), drops next, and returns
CbAbort ==
    /\ AtCallback("user")
    /\ \E v \in Answers :
          aborted' = Append(aborted, [abort |-> Top.abort, gen |-> Top.gen, v |-> v])
    /\ log' = Append(log, Observed(Top, 0, "abort"))
    /\ stack' = Waiting(stack)
    /\ UNCHANGED <<gens, cells, writes, held, completed, answers, execs, panic, error,
                   handlers, main>>

\* the callback drops both and returns
CbDrop ==
    /\ AtCallback("user")
    /\ log' = Append(log, Observed(Top, 0, "drop"))
    /\ stack' = Waiting(stack)
    /\ UNCHANGED <<gens, cells, writes, held, completed, aborted, answers, execs, panic,
                   error, handlers, main>>

\* faulty variant: calling a stored next does not consume it
ExternalNextKeepsToken ==
    /\ Running
    /\ stack = <<>>
    /\ held # <<>>
    /\ \E v \in Answers :
          /\ answers' = Append(answers, v)
          /\ Reenter(Head(held), v, <<>>)
    /\ UNCHANGED <<gens, held, completed, aborted, log, execs, panic, error,
                   handlers, main>>

\* whoever holds a stored next calls it, once the driver has returned
ExternalNext ==
    /\ Running
    /\ stack = <<>>
    /\ held # <<>>
    /\ \E v \in Answers :
          /\ answers' = Append(answers, v)
          /\ Reenter(Head(held), v, <<>>)
    /\ held' = Tail(held)
    /\ UNCHANGED <<gens, completed, aborted, log, execs, panic, error, handlers, main>>

(***************************************************************************)
(* The effect layer: the callback of perform!(e) offers e to the installed *)
(* handlers, innermost first.                                              *)
(***************************************************************************)
HandlerConfigs ==
    {<<>>, <<"Foo">>, <<"Bar">>, <<"Foo", "Bar">>, <<"Bar", "Foo">>}

\* the handlers of test_perform_from: Foo resumes with 42, Bar(x) with x + 2
Reaction(ty, x) == IF ty = "Foo" THEN 42 ELSE x + 2

\* the handler at this level is for the effect: it resumes the continuation
HandlerMatch ==
    /\ AtCallback("perform")
    /\ Top.level <= Len(handlers)
    /\ handlers[Top.level] = Top.cb.eff
    /\ log' = Append(log, Observed(Top, Top.level, "next"))
    /\ Reenter(Token(Top), IntV(Reaction(Top.cb.eff, Top.cb.x)), Waiting(stack))
    /\ UNCHANGED <<gens, held, completed, aborted, answers, execs, panic, error,
                   handlers, main>>

\* faulty variant: a handler for another effect swallows the effect's payload
HandlerForwardLosesPayload ==
    /\ AtCallback("perform")
    /\ Top.level <= Len(handlers)
    /\ handlers[Top.level] # Top.cb.eff
    /\ stack' = [stack EXCEPT ![Len(stack)].level = @ + 1, ![Len(stack)].cb.x = 0]
    /\ UNCHANGED <<gens, cells, writes, held, completed, aborted, log, answers, execs,
                   panic, error, handlers, main>>

\* the handler at this level is for another effect: re-suspended unchanged
HandlerForward ==
    /\ AtCallback("perform")
    /\ Top.level <= Len(handlers)
    /\ handlers[Top.level] # Top.cb.eff
    /\ stack' = [stack EXCEPT ![Len(stack)].level = @ + 1]
    /\ UNCHANGED <<gens, cells, writes, held, completed, aborted, log, answers, execs,
                   panic, error, handlers, main>>

\* faulty variant: an effect nobody handles resumes the computation with a default
UnhandledResumes ==
    /\ AtCallback("perform")
    /\ Top.level > Len(handlers)
    /\ Reenter(Token(Top), IntV(0), Waiting(stack))
    /\ UNCHANGED <<gens, held, completed, aborted, log, answers, execs, panic,
                   error, handlers, main>>

\* no handler is left: the run fails and the computation is not resumed
Unhandled ==
    /\ AtCallback("perform")
    /\ Top.level > Len(handlers)
    /\ error' = "UnhandledEffectError"
    /\ stack' = <<>>
    /\ UNCHANGED <<gens, cells, writes, held, completed, aborted, log, answers, execs,
                   panic, handlers, main>>

(***************************************************************************)
(* The specification.                                                      *)
(***************************************************************************)
Mains ==
    {GreetDesc(name) : name \in Names}
        \cup {FactorialDesc(n) : n \in 0..MaxN}
        \cup {ScriptDesc(p) : p \in Scripts}
        \cup {OuterDesc}

\* main: a fresh empty cell, the generator built with it, and the first drive
Init ==
    /\ main \in Mains
    /\ handlers \in (IF main.kind = "outer" THEN HandlerConfigs ELSE {<<>>})
    /\ cells = <<None>>
    /\ writes = <<0>>
    /\ gens = <<NewGen(main, 1)>>
    /\ stack = <<RunFrame(1, 1, Abort0, <<>>)>>
    /\ held = <<>>
    /\ completed = <<>>
    /\ aborted = <<>>
    /\ log = <<>>
    /\ answers = <<>>
    /\ execs = 0
    /\ panic = "none"
    /\ error = "none"

Driver == ArmVal \/ ArmGen \/ ArmExec \/ ArmComplete \/ Panic \/ Return
Callback == CbNext \/ CbHold \/ CbAbort \/ CbDrop
Effects == HandlerMatch \/ HandlerForward \/ Unhandled

Next ==
    \/ ArmVal
    \/ ArmGen
    \/ ArmExec
    \/ ArmComplete
    \/ Panic
    \/ Return
    \/ CbNext
    \/ CbHold
    \/ CbAbort
    \/ CbDrop
    \/ ExternalNext
    \/ HandlerMatch
    \/ HandlerForward
    \/ Unhandled

Spec == Init /\ [][Next]_vars

(***************************************************************************)
(* start.  main never calls it, so its caller is an input: a cell holding  *)
(* some usize, and a gen_func that builds factorial(n) with a cell of its  *)
(* own.  The callback of start's Handoff builds the wrapped generator and  *)
(* drives it on a fresh cell that the wrapped generator never gets to see. *)
(***************************************************************************)
\* the callback of start: run_generator(gen_func(abort), fresh cell, abort, next)
CbStart ==
    /\ AtCallback("start")
    /\ LET fresh == Len(cells) + 1
           wrapped == Len(gens) + 1
       IN  /\ cells' = Append(cells, None)
           /\ writes' = Append(writes, 0)
           /\ gens' = Append(gens, NewGen(FactorialDesc(gens[Top.gen].n), 3))
           /\ stack' = Append(Waiting(stack),
                              RunFrame(wrapped, fresh, Top.abort,
                                       <<Cont(Top.gen, Top.arg, Top.abort)>> \o Top.next))
    /\ UNCHANGED <<held, completed, aborted, log, answers, execs, panic, error,
                   handlers, main>>

\* cell 1 is start's arg, cell 2 the cell start's generator is driven with,
\* cell 3 the cell gen_func's factorial captured
InitStart ==
    /\ main \in {StartDesc(n) : n \in 0..MaxWrapped}
    /\ handlers = <<>>
    /\ \E v \in 0..MaxV : cells = <<Some(ToUsize(v)), None, None>>
    /\ writes = <<0, 0, 0>>
    /\ gens = <<NewGen(main, 1)>>
    /\ stack = <<RunFrame(1, 2, Abort0, <<>>)>>
    /\ held = <<>>
    /\ completed = <<>>
    /\ aborted = <<>>
    /\ log = <<>>
    /\ answers = <<>>
    /\ execs = 0
    /\ panic = "none"
    /\ error = "none"

NextStart ==
    \/ ArmGen
    \/ ArmExec
    \/ ArmComplete
    \/ Panic
    \/ Return
    \/ CbStart

SpecStart == InitStart /\ [][NextStart]_vars

\* the thread keeps executing: the driver, and every callback it calls, take
\* their next step; only the holder of a stored next may wait forever
FairSpec == Spec /\ WF_vars(Driver \/ Callback \/ Effects)

(***************************************************************************)
(* Reference semantics of a script: the same computation written as        *)
(* ordinary code that never suspends, taking the values its Handoff        *)
(* suspensions are answered with from ans, in program order.               *)
(***************************************************************************)
RECURSIVE EvalFrom(_, _, _, _)
EvalFrom(prog, i, acc, ans) ==
    IF i > Len(prog) THEN [val |-> acc, rest |-> ans]
    ELSE LET o == prog[i]
         IN  CASE o.op = "val" -> EvalFrom(prog, i + 1, Combine(acc, o.v), ans)
               [] o.op = "exec" ->
                     EvalFrom(prog, i + 1, Combine(acc, Head(ans)), Tail(ans))
               [] o.op = "gen" ->
                     LET r == EvalFrom(o.body, 1, 0, ans)
                     IN  EvalFrom(prog, i + 1, Combine(acc, r.val), r.rest)

DirectEval(prog, ans) == EvalFrom(prog, 1, 0, ans).val

RECURSIVE Flatten(_)
\* the effects a script performs, delegated scripts included, in program order
Flatten(prog) ==
    IF Len(prog) = 0 THEN <<>>
    ELSE LET o == prog[1]
             here == CASE o.op = "exec" -> <<o.eff>>
                       [] o.op = "gen" -> Flatten(o.body)
                       [] o.op = "val" -> <<>>
         IN  here \o Flatten(SubSeq(prog, 2, Len(prog)))

\* the number of Handoff suspensions of a script's own body
ExecOnly(prog) == \A i \in 1..Len(prog) : prog[i].op = "exec"

Quiescent == stack = <<>>

(***************************************************************************)
(* C4  Sequential identity.  A computation that returns on its first       *)
(* resume (factorial(0), the empty script) has its value handed to the     *)
(* completion callback exactly once -- the value ordinary code would       *)
(* return -- and nothing is ever written to a cell.                        *)
(***************************************************************************)
NeverSuspends(d) ==
    \/ d.kind = "factorial" /\ d.n = 0
    \/ d.kind = "script" /\ Len(d.prog) = 0

OrdinaryValue(d) ==
    IF d.kind = "factorial" THEN ToUsize(1) ELSE DirectEval(d.prog, <<>>)

\* C4: a computation that never suspends completes once, with its ordinary
\* value, and no cell is written
C4_SequentialIdentity ==
    NeverSuspends(main) =>
        /\ Len(completed) <= 1
        /\ cells = <<None>>
        /\ Len(gens) = 1 /\ gens[1].resumes <= 1
        /\ (gens[1].done \/ Quiescent) => completed = <<OrdinaryValue(main)>>

C4_Witness ==
    /\ NeverSuspends(main)
    /\ main.kind = "factorial"
    /\ Quiescent
    /\ completed = <<ToUsize(1)>>

(***************************************************************************)
(* C5  Single resumption per suspension.  A computation whose body is N    *)
(* Handoff suspensions is resumed at most N + 1 times, exactly N + 1 times *)
(* once it has completed (every one of its callbacks then called next      *)
(* once), and is never resumed after it has completed.                     *)
(***************************************************************************)
C5_SingleResumption ==
    /\ panic # "resumed_after_completion"
    /\ \A i \in 1..Len(gens) :
          LET g == gens[i]
          IN  (g.kind = "script" /\ ExecOnly(g.prog)) =>
                 /\ g.resumes <= Len(g.prog) + 1
                 /\ g.done => g.resumes = Len(g.prog) + 1
                 /\ (~g.done) => g.resumes = g.pc
    /\ (main.kind = "script" /\ ExecOnly(main.prog)
            /\ Len(answers) = Len(main.prog) /\ Quiescent)
          => (gens[1].done /\ completed # <<>>)

C5_Witness ==
    /\ main.kind = "script"
    /\ ExecOnly(main.prog)
    /\ Len(main.prog) = 2
    /\ gens[1].done
    /\ gens[1].resumes = 3
    /\ Len(answers) = 2

(***************************************************************************)
(* C6  Ordering.  The effects a computation and the computations it        *)
(* delegates to perform are observed in program order: the observed        *)
(* sequence is always a prefix of the program's effects, each effect is    *)
(* observed by the handler installed for it (so with handlers for Bar and  *)
(* Foo nested either way around outer, which performs Bar then Foo, the    *)
(* Bar handler observes before the Foo handler), and a computation that    *)
(* completes returns what its un-suspended execution returns.              *)
(***************************************************************************)
LogEffs == [i \in 1..Len(log) |-> log[i].eff]
IsPrefix(a, b) == Len(a) <= Len(b) /\ \A i \in 1..Len(a) : a[i] = b[i]
InHandlers(e) == \E j \in 1..Len(handlers) : handlers[j] = e

\* outer written as ordinary code, its effects answered by the test's handlers
OuterOrdinary == Len(to_string(Reaction("Bar", 10))) + Reaction("Foo", 0)

\* C6: effects are observed in program order; a completed run returns the
\* value of its un-suspended execution
C6_Ordering ==
    /\ main.kind = "script" =>
          /\ IsPrefix(LogEffs, Flatten(main.prog))
          /\ completed # <<>> =>
                /\ LogEffs = Flatten(main.prog)
                /\ completed = <<DirectEval(main.prog, answers)>>
    /\ main.kind = "outer" =>
          /\ IsPrefix(LogEffs, <<"Bar", "Foo">>)
          /\ \A i \in 1..Len(log) :
                log[i].h \in 1..Len(handlers) /\ handlers[log[i].h] = log[i].eff
          /\ completed # <<>> =>
                /\ LogEffs = <<"Bar", "Foo">>
                /\ completed = <<IntV(OuterOrdinary)>>

C6_Witness ==
    /\ main.kind = "script"
    /\ main.prog = <<OpGen(Sub2), OpExec("B")>>
    /\ LogEffs = <<"A", "B">>
    /\ completed # <<>>

(***************************************************************************)
(* C2  Delegation transparency.  In test_perform_from, with handlers for   *)
(* Foo and Bar installed around outer, the effect Bar(10) that inner       *)
(* performs is observed by the Bar handler installed around outer, inner's *)
(* final value "12" is an ordinary value in outer, and the run returns 44. *)
(***************************************************************************)
BothHandled == main.kind = "outer" /\ Len(handlers) = 2

\* C2: inner's Bar(10) is observed by the Bar handler around outer; run() = 44
C2_DelegationTransparency ==
    BothHandled =>
        /\ \A i \in 1..Len(log) :
              log[i].eff = "Bar" =>
                 /\ log[i].x = 10
                 /\ log[i].gen = 2 /\ gens[2].kind = "inner"
                 /\ handlers[log[i].h] = "Bar"
        /\ (Len(gens) >= 2 /\ gens[2].resumes >= 2) =>
              (\E i \in 1..Len(log) : log[i].eff = "Bar")
        /\ gens[1].pc >= 2 => gens[1].str = <<"1", "2">>
        /\ Quiescent =>
              /\ completed = <<IntV(44)>>
              /\ Len(log) = 2
              /\ panic = "none" /\ error = "none"

C2_Witness ==
    /\ main.kind = "outer"
    /\ handlers = <<"Foo", "Bar">>
    /\ completed = <<IntV(44)>>
    /\ log[1] = [h |-> 2, eff |-> "Bar", x |-> 10, gen |-> 2, how |-> "next"]

(***************************************************************************)
(* C3  Handler stacking.  Every performed effect is offered to the         *)
(* innermost handler first; a handler for another effect passes it on      *)
(* unchanged -- same payload, same continuation -- to the next enclosing   *)
(* one; the handler that observes an effect is the innermost one for it.   *)
(***************************************************************************)
PerformedBy(g) == IF g.kind = "inner" THEN Perform("Bar", 10) ELSE Perform("Foo", 0)

C3_StackInv ==
    /\ \A i \in 1..Len(log) :
          log[i].h >= 1 =>
             /\ handlers[log[i].h] = log[i].eff
             /\ \A j \in 1..(log[i].h - 1) : handlers[j] # log[i].eff
             /\ log[i].x = PerformedBy(gens[log[i].gen]).x
    /\ AtCallback("perform") =>
          /\ \A j \in 1..(Top.level - 1) : handlers[j] # Top.cb.eff
          /\ Top.cb = PerformedBy(gens[Top.gen])
          /\ Top.arg = gens[Top.gen].cell
          /\ gens[Top.gen].resumes = gens[Top.gen].pc

C3_Forwarded ==
    (AtCallback("perform") /\ stack' # <<>> /\ Len(stack') = Len(stack)
        /\ Top.level <= Len(handlers) /\ handlers[Top.level] # Top.cb.eff)
      => /\ stack'[Len(stack')].cb = Top.cb
         /\ Token(stack'[Len(stack')]) = Token(Top)
         /\ stack'[Len(stack')].level = Top.level + 1
         /\ stack'[Len(stack')].st = "enter"
         /\ gens' = gens /\ cells' = cells /\ log' = log

\* C3: innermost handler first; a non-matching handler forwards unchanged
C3_HandlerStacking == []C3_StackInv /\ [][C3_Forwarded]_vars

C3_Witness ==
    /\ handlers = <<"Foo", "Bar">>
    /\ Len(log) >= 1
    /\ log[1].eff = "Bar" /\ log[1].x = 10 /\ log[1].h = 2

(***************************************************************************)
(* C9  Unhandled effects.  When a performed effect has no handler the run  *)
(* fails with UnhandledEffectError, nothing is handed to the completion    *)
(* callback, and the computation that performed it is never resumed.       *)
(***************************************************************************)
\* the computation whose effect is the first without a handler
Unanswered == IF InHandlers("Bar") THEN 1 ELSE 2

C9_Inv ==
    /\ (main.kind = "outer" /\ Quiescent) =>
          (error = "UnhandledEffectError" <=> ~(InHandlers("Bar") /\ InHandlers("Foo")))
    /\ error # "none" =>
          /\ error = "UnhandledEffectError"
          /\ Quiescent /\ completed = <<>> /\ held = <<>>
          /\ Len(gens) >= Unanswered
          /\ ~gens[Unanswered].done
          /\ gens[Unanswered].resumes = gens[Unanswered].pc
          /\ ~InHandlers(PerformedBy(gens[Unanswered]).eff)

\* C9: an effect without handler fails the run with UnhandledEffectError and
\* its computation is never resumed
C9_UnhandledEffect == []C9_Inv /\ [][error # "none" => gens' = gens /\ cells' = cells]_vars

C9_Witness ==
    /\ error = "UnhandledEffectError"
    /\ handlers = <<"Foo">>
    /\ gens[2].resumes = 1

(***************************************************************************)
(* C7  Abort short-circuit.  Once a Handoff callback has called abort()(v) *)
(* instead of next, v has gone to the abort capability of the outermost    *)
(* call, the completion callback is never called, and no generator runs    *)
(* any further: the suspended computation keeps its state for ever and     *)
(* only returns are left on the stack.                                     *)
(***************************************************************************)
C7_Inv ==
    aborted # <<>> =>
        /\ Len(aborted) = 1
        /\ aborted[1].abort = Abort0
        /\ aborted[1].v \in Answers
        /\ completed = <<>>
        /\ held = <<>>
        /\ ~gens[aborted[1].gen].done
        /\ gens[aborted[1].gen].resumes = gens[aborted[1].gen].pc
        /\ \A i \in 1..Len(stack) : stack[i].st = "wait"

C7_Frozen ==
    aborted # <<>> =>
        /\ gens' = gens
        /\ cells' = cells
        /\ completed' = completed
        /\ aborted' = aborted
        /\ answers' = answers
        /\ execs' = execs

\* C7: after abort()(v) nothing runs any more and no completion is called
C7_AbortShortCircuit == []C7_Inv /\ [][C7_Frozen]_vars

C7_Witness ==
    /\ main.kind = "script"
    /\ main.prog = <<OpExec("A"), OpExec("B")>>
    /\ Len(aborted) = 1
    /\ aborted[1].gen = 1
    /\ gens[1].pc = 2
    /\ Quiescent

(***************************************************************************)
(* C8  Exactly-once continuations.  As stated: a callback that returns     *)
(* having neither called next nor aborted is reported as an                *)
(* AbandonedContinuationError.                                             *)
(***************************************************************************)
Dropped == \E i \in 1..Len(log) : log[i].how = "drop"

C8_Original == (Dropped /\ Quiescent) => error = "AbandonedContinuationError"

(***************************************************************************)
(* C8 as amended.  A next closure is consumed by its call, so the nexts    *)
(* called never outnumber the callbacks invoked and every continuation has *)
(* exactly one fate; no DoubleResumeError or AbandonedContinuationError is *)
(* ever reported, and after a callback has dropped its continuation the    *)
(* run ends silently: no completion, no error, no panic, and the           *)
(* computation stays suspended.                                            *)
(***************************************************************************)
Count(how) == Cardinality({i \in 1..Len(log) : log[i].how = how})

C8_Inv ==
    /\ error \notin {"DoubleResumeError", "AbandonedContinuationError"}
    /\ Len(held) <= 1
    /\ main.kind = "script" =>
          /\ Len(answers) <= execs
          /\ Len(answers) + Len(held) = Count("next") + Count("hold")
          /\ Len(aborted) = Count("abort")
          /\ Len(log) + (IF AtCallback("user") THEN 1 ELSE 0) = execs
    /\ Dropped =>
          /\ completed = <<>> /\ error = "none" /\ panic = "none" /\ held = <<>>
          /\ ~gens[log[Len(log)].gen].done
          /\ gens[log[Len(log)].gen].resumes = gens[log[Len(log)].gen].pc
          /\ \A i \in 1..Len(stack) : stack[i].st = "wait"

C8_Silent == Dropped => (gens' = gens /\ cells' = cells /\ log' = log)

\* C8 (amended): each continuation has one fate, no error is ever reported,
\* and a dropped continuation ends the run silently
C8_ExactlyOnceUnchecked == []C8_Inv /\ [][C8_Silent]_vars

C8_Witness ==
    /\ Dropped
    /\ Quiescent
    /\ Len(log) = 2
    /\ error = "none"
    /\ completed = <<>>

(***************************************************************************)
(* C10  Delegate step, as stated for factorial: driving factorial(n) hands *)
(* n! to the completion callback for every n >= 0.                         *)
(***************************************************************************)
C10_Original ==
    (main.kind = "factorial" /\ Quiescent) =>
        /\ Len(completed) = 1
        /\ Canon(completed[1]) = FactBig(main.n)

(***************************************************************************)
(* C10 as amended.  A Delegate suspension builds a fresh generator with a  *)
(* fresh, initially empty cell; while the inner computation has not        *)
(* completed the delegating one stays suspended at its Delegate            *)
(* suspension; the inner final value is what is written to the outer cell  *)
(* and what the outer computation reads.  Driving factorial(n) hands n! to *)
(* the completion callback for every n whose n! fits in usize, and         *)
(* factorial(0) = 1 without suspending.                                    *)
(***************************************************************************)
SuspendedAtDelegate(g) ==
    /\ ~g.done
    /\ g.resumes = g.pc
    /\ CASE g.kind = "factorial" -> g.pc = 1 /\ g.n > 0
         [] g.kind = "script" -> g.pc >= 1 /\ g.prog[g.pc].op = "gen"
         [] g.kind = "outer" -> g.pc = 1
         [] OTHER -> FALSE

\* while the computation a chain was built for runs, the chain's head waits
ChainWaits(t) ==
    (t.next # <<>> /\ ~gens[t.gen].done) =>
        /\ SuspendedAtDelegate(gens[t.next[1].gen])
        /\ t.next[1].arg = gens[t.next[1].gen].cell
        /\ t.next[1].arg # t.arg

Fits(n) == Len(FactBig(n)) <= UsizeLimbs

\* C10 (amended): fresh inner generator and cell, outer suspended until the
\* inner completes, inner value handed over; factorial(n) = n! while n! fits usize
C10_DelegateStep ==
    /\ Len(cells) = Len(gens)
    /\ \A i \in 1..Len(gens) :
          /\ \A j \in 1..Len(gens) : i # j => gens[i].cell # gens[j].cell
          /\ gens[i].resumes = 0 => cells[gens[i].cell] = None
    /\ \A i \in 1..Len(stack) : ChainWaits(stack[i])
    /\ \A i \in 1..Len(held) : ChainWaits(held[i])
    /\ main.kind = "factorial" =>
          /\ \A i \in 1..Len(gens) : gens[i].n = main.n - (i - 1)
          /\ \A i \in 1..(Len(gens) - 1) :
                IF gens[i + 1].done
                THEN /\ IsSome(cells[i])
                     /\ Fits(gens[i + 1].n) =>
                           Canon(Unwrap(cells[i])) = FactBig(gens[i + 1].n)
                ELSE cells[i] = None /\ gens[i].resumes = 1
          /\ (gens[1].done /\ Fits(main.n)) =>
                /\ panic = "none"
                /\ Len(completed) = 1
                /\ Canon(completed[1]) = FactBig(main.n)
          /\ (Quiescent /\ Fits(main.n)) => gens[1].done
          /\ main.n = 0 => Len(gens) = 1 /\ gens[1].resumes <= 1

C10_Witness ==
    /\ main.kind = "factorial"
    /\ main.n = 5
    /\ Quiescent
    /\ completed = <<ToUsize(120)>>
    /\ Len(gens) = 6

(***************************************************************************)
(* C1  Progress of the driver (under FairSpec).  Every call of             *)
(* run_generator leads to a Handoff callback being invoked or to the       *)
(* completion callback being called (or to a panic of the computation),    *)
(* and control returns to the caller; the final value of the outermost     *)
(* computation is always handed to the completion callback.                *)
(***************************************************************************)
InCallback == stack # <<>> /\ Top.f = "cb" /\ Top.st = "enter"

SuspendedAtExec(g) ==
    /\ ~g.done
    /\ g.resumes = g.pc
    /\ CASE g.kind = "script" -> g.pc >= 1 /\ g.prog[g.pc].op = "exec"
         [] g.kind = "inner" -> g.pc = 1
         [] g.kind = "outer" -> g.pc = 2
         [] OTHER -> FALSE

\* the Handoff suspensions generator g has made so far
ExecsOf(g) ==
    CASE g.kind = "script" ->
            Cardinality({i \in 1..Len(g.prog) : i <= g.pc /\ g.prog[i].op = "exec"})
      [] g.kind = "inner" -> IF g.pc >= 1 THEN 1 ELSE 0
      [] g.kind = "outer" -> IF g.pc >= 2 THEN 1 ELSE 0
      [] OTHER -> 0

RECURSIVE SumExecs(_)
SumExecs(gs) == IF gs = <<>> THEN 0 ELSE ExecsOf(Head(gs)) + SumExecs(Tail(gs))

C11_Inv ==
    /\ execs = SumExecs(gens)
    /\ InCallback =>
          /\ Len(stack) >= 2
          /\ stack[Len(stack) - 1].f = "run"
          /\ stack[Len(stack) - 1].st = "wait"
          /\ Token(stack[Len(stack) - 1]) = Token(Top)
          /\ SuspendedAtExec(gens[Top.gen])
    /\ \A i \in 1..Len(held) : SuspendedAtExec(gens[held[i].gen])

C11_Step ==
    /\ execs' # execs =>
          /\ execs' = execs + 1
          /\ AtResume
          /\ InCallback'
          /\ stack' = Append(Waiting(stack), stack'[Len(stack')])
          /\ Token(stack'[Len(stack')]) = Token(Top)
          /\ cells' = cells /\ writes' = writes
    /\ \A i \in 1..Len(gens) :
          (SuspendedAtExec(gens[i]) /\ gens'[i] # gens[i]) =>
              /\ AtResume
              /\ Top.gen = i
              /\ IsSome(cells[Top.arg])
    /\ (stack' # stack /\ stack' # <<>> /\ stack'[Len(stack')].f = "run"
          /\ stack'[Len(stack')].st = "resume"
          /\ SuspendedAtExec(gens'[stack'[Len(stack')].gen])) =>
          /\ InCallback \/ (stack = <<>> /\ held # <<>>)
          /\ LET t == IF InCallback THEN Token(Top) ELSE Head(held)
                 stk == IF InCallback THEN Waiting(stack) ELSE <<>>
             IN  /\ IsSome(cells'[t.arg])
                 /\ cells' = CellWrite(cells, t.arg, Unwrap(cells'[t.arg]))
                 /\ writes' = Written(writes, t.arg)
                 /\ stack' = Append(stk, RunFrame(t.gen, t.arg, t.abort, t.next))
                 /\ gens' = gens

\* C11: on a Handoff the driver calls the callback once with abort and next
\* and does not resume; next(v) writes v to the cell and re-drives the same
\* generator, cell, abort and completion callback
C11_HandoffStep == []C11_Inv /\ [][C11_Step]_vars

\* a delegated generator is about to be resumed by a next closure that its
\* callback called before returning
C11_Witness ==
    /\ main.kind = "script"
    /\ answers # <<>>
    /\ AtResume
    /\ SuspendedAtExec(gens[Top.gen])
    /\ Top.next # <<>>
    /\ Len(stack) >= 3
    /\ stack[Len(stack) - 1].f = "cb"
    /\ IsSome(cells[Top.arg])
    /\ Unwrap(cells[Top.arg]) = answers[Len(answers)]

(***************************************************************************)
(* C12  Plain step.  A generator suspended at a Val(v) is about to be      *)
(* resumed by the driver, with v in the cell it reads; what it reads on    *)
(* that resume is v.  greet(name) completes with "Hi, " + name.            *)
(***************************************************************************)
SuspendedAtVal(g) ==
    /\ ~g.done
    /\ g.resumes = g.pc
    /\ CASE g.kind = "greet" -> g.pc = 1
         [] g.kind = "script" -> g.pc >= 1 /\ g.prog[g.pc].op = "val"
         [] OTHER -> FALSE

\* the v of the Val(v) a generator is suspended at
YieldedVal(g) == IF g.kind = "greet" THEN Greeting(g.name) ELSE g.prog[g.pc].v

C12_Inv ==
    /\ \A i \in 1..Len(gens) :
          SuspendedAtVal(gens[i]) =>
              /\ AtResume
              /\ Top.gen = i
              /\ Top.arg = gens[i].cell
              /\ cells[Top.arg] = Some(YieldedVal(gens[i]))
    /\ main.kind = "greet" =>
          /\ panic = "none"
          /\ Len(completed) <= 1
          /\ gens[1].done => completed = <<Greeting(main.name)>>
          /\ gens[1].resumes <= 2

C12_Step ==
    \A i \in 1..Len(gens) :
        (SuspendedAtVal(gens[i]) /\ gens'[i] # gens[i]) =>
            /\ panic' = "none"
            /\ gens'[i].resumes = gens[i].resumes + 1
            /\ IF gens[i].kind = "greet"
               THEN completed' = Append(completed, YieldedVal(gens[i]))
               ELSE gens'[i].acc = Combine(gens[i].acc, YieldedVal(gens[i]))

\* C12: on Val(v) the driver stores v in the generator's cell and resumes it
\* at once; the value it reads is v; greet(name) completes with "Hi, " + name
C12_PlainStep == []C12_Inv /\ [][C12_Step]_vars

\* greet("ho") has completed with "Hi, ho"
C12_Witness ==
    /\ main = GreetDesc(<<"h", "o">>)
    /\ gens[1].done
    /\ completed = <<<<"H", "i", ",", " ", "h", "o">>>>

(***************************************************************************)
(* C13  Call depth under Plain suspensions.  The Val arm calls             *)
(* run_generator again (main.rs:101) and Rust does not guarantee that a    *)
(* call in tail position reuses the activation, so every Plain suspension  *)
(* leaves one more run_generator activation on the stack until the whole   *)
(* drive returns.                                                          *)
(***************************************************************************)
\* computations whose every suspension is Plain
PlainOnly(d) ==
    \/ d.kind = "greet"
    \/ d.kind = "script" /\ \A i \in 1..Len(d.prog) : d.prog[i].op = "val"

\* the number of active run_generator activations
RunDepth == Cardinality({i \in 1..Len(stack) : stack[i].f = "run"})

\* C13: driving a computation that only yields Plain keeps one run_generator
\* activation, however many times it yields
C13_Original == PlainOnly(main) => RunDepth <= 1

C14_Inv ==
    /\ Len(writes) = Len(cells)
    /\ \A c \in 1..Len(cells) : cells[c] = None <=> writes[c] = 0
    /\ \A i \in 1..Len(stack) : stack[i].arg = gens[stack[i].gen].cell
    /\ \A i \in 1..Len(gens) :
          writes[gens[i].cell] =
              IF gens[i].resumes = 0 THEN 0
              ELSE IF AtResume /\ Top.gen = i THEN gens[i].resumes
              ELSE gens[i].resumes - 1

C14_Step ==
    \A c \in 1..Len(cells) :
        /\ writes'[c] \in {writes[c], writes[c] + 1}
        /\ writes'[c] = writes[c] => cells'[c] = cells[c]
        /\ writes'[c] # writes[c] => IsSome(cells'[c]) /\ AtResume' /\
                                      stack'[Len(stack')].arg = c

BeforeRead(g) == [g EXCEPT !.done = FALSE, !.resumes = @ - 1]

C15_Inv ==
    /\ panic # "unwrap_none"
    /\ AtResume => TryResume.tag # "Panic"
    /\ \A i \in 1..Len(gens) :
          LET g == gens[i]
          IN  /\ (g.resumes >= 1 /\ ~g.done /\ writes[g.cell] = 0) =>
                    /\ Resume(g, cells).tag = "Panic"
                    /\ Resume(g, cells).v = "unwrap_none"
              /\ g.resumes >= 2 => IsSome(cells[g.cell])
    /\ (main.kind = "greet" /\ gens[1].done) =>
          /\ writes[1] = 1
          /\ ResumeGreet(BeforeRead(gens[1]), cells).tag = "Complete"
          /\ ResumeGreet(BeforeRead(gens[1]), cells).v = completed[1]

DelegatePending(gs, ws, i) ==
    /\ SuspendedAtDelegate(gs[i])
    /\ ws[gs[i].cell] = gs[i].resumes - 1

C16_Inv ==
    (AtResume \/ InCallback) =>
        \A k \in 1..Len(Top.next) :
            /\ Top.next[k].arg # Top.arg
            /\ Top.next[k].arg = gens[Top.next[k].gen].cell
            /\ DelegatePending(gens, writes, Top.next[k].gen)

C16_Step ==
    \A i \in 1..Len(gens) :
        DelegatePending(gens, writes, i) =>
            LET c == gens[i].cell
            IN  IF DelegatePending(gens', writes', i)
                THEN cells'[c] = cells[c] /\ writes'[c] = writes[c]
                ELSE /\ AtResume
                     /\ Top.next # <<>>
                     /\ Top.next[1].gen = i
                     /\ Top.arg # c
                     /\ TryResume.tag \in {"Complete", "Overflow"}
                     /\ gens'[Top.gen].done
                     /\ gens'[i] = gens[i]
                     /\ cells' = CellWrite(cells, c, TryResume.v)
                     /\ writes' = Written(writes, c)

\* C16: what the inner computation is given goes to the inner cell only; the
\* outer cell is untouched from the Delegate until the inner completes, and
\* then gets one write, the inner final value
C16_CellIsolation == []C16_Inv /\ [][C16_Step]_vars

\* the inner generator, whose own cell was written, has completed and the
\* outer one is about to be resumed on its single write
C16_Witness ==
    /\ AtResume
    /\ Top.gen = 1
    /\ Len(gens) >= 2
    /\ gens[2].done
    /\ writes[gens[2].cell] >= 1
    /\ SuspendedAtDelegate(gens[1])
    /\ writes[1] = gens[1].resumes

(***************************************************************************)
(* C17  No aliasing violation on re-entry.  The activations below the top  *)
(* one hold no RefCell borrow, so the generator and the cell are free for  *)
(* whoever runs next: a nested drive, a callback, or a next closure called *)
(* from inside a callback, however deep the nesting.                       *)
(***************************************************************************)
\* the top activation drives a generator that an older, unfinished
\* activation of run_generator drives as well
Reentered ==
    /\ stack # <<>>
    /\ \E i \in 1..Len(stack) - 1 : stack[i].f = "run" /\ stack[i].gen = Top.gen

C17_Inv ==
    /\ panic # "already_borrowed"
    /\ (AtResume \/ InCallback) =>
          /\ <<"gen", Top.gen>> \notin Borrowed
          /\ <<"cell", Top.arg>> \notin Borrowed
          /\ \A k \in 1..Len(Top.next) :
                /\ <<"gen", Top.next[k].gen>> \notin Borrowed
                /\ <<"cell", Top.next[k].arg>> \notin Borrowed
    /\ AtResume => TryResume = Resume(gens[Top.gen], cells)

AbortsOf(t) == <<t.abort>> \o [k \in 1..Len(t.next) |-> t.next[k].abort]

C18_Inv ==
    /\ \A i \in 1..Len(stack) : \A k \in 1..Len(AbortsOf(stack[i])) :
          AbortsOf(stack[i])[k] = Abort0
    /\ \A i \in 1..Len(held) : \A k \in 1..Len(AbortsOf(held[i])) :
          AbortsOf(held[i])[k] = Abort0
    /\ \A i \in 1..Len(aborted) : aborted[i].abort = Abort0

C18_Step ==
    aborted' # aborted =>
        /\ InCallback
        /\ Top.cb.kind = "user"
        /\ Len(aborted') = Len(aborted) + 1
        /\ aborted'[Len(aborted')].abort = Top.abort
        /\ gens' = gens

\* C18: the abort capability of the outermost drive is the one every callback
\* and nested drive gets, at every depth and after every resume; the driver
\* never calls it
C18_AbortPropagation == []C18_Inv /\ [][C18_Step]_vars

\* after a next closure resumed the outermost generator, the callback of a
\* generator two delegations down called abort
C18_Witness ==
    /\ aborted # <<>>
    /\ answers # <<>>
    /\ aborted[1].gen = 3
    /\ gens[1].resumes >= 2
    /\ aborted[1].abort = Abort0

(***************************************************************************)
(* C19  start.  The wrapped generator's final value is written to the cell *)
(* start's generator is driven with; start's generator does not read that  *)
(* cell but its own arg, so what reaches the completion callback is what   *)
(* arg held from the beginning.                                            *)
(***************************************************************************)
\* C19: once the wrapped computation has completed and start's generator is
\* resumed, it completes with the wrapped computation's final value, and
\* that value reaches the outermost completion callback
C19_Original ==
    gens[1].done =>
        /\ Len(gens) >= 2 /\ gens[2].done
        /\ Len(completed) = 1
        /\ Canon(completed[1]) = FactBig(gens[2].n)
====
